---- MODULE Spec2Model ----
(***************************************************************************)
(* Message-queue dispatch and consumption of the three programs of the     *)
(* repository, each run against one AMQP broker:                           *)
(*   part_000     RabbitMQService, startBackgroundWorkers, startServer     *)
(*   part_001     connectRabbitMQ, POST /api/users                         *)
(*   email-worker setupEmailConsumer, sendEmail                            *)
(* One behaviour is one program run; prog says which program runs.  An     *)
(* action is one run-to-completion segment of the event loop: from the     *)
(* resumption of an await (or the arrival of an event) to the next await.  *)
(***************************************************************************)
EXTENDS Integers, Sequences, FiniteSets, TLC

\* ---- bounds --------------------------------------------------------------
MaxConns == 2      \* connections ever opened in one run
MaxMsgs == 2       \* messages waiting at the start or sent by direct sendToQueue calls
MaxDeliv == 2      \* deliveries (consumer callback invocations) in one run
MaxTasks == 2      \* async calls in one run; slot 1 is the startup and reconnect chain
MaxSockets == 2    \* socket.io connections in one run
MaxUsers == 2      \* user ids that log in

\* ---- program constants -----------------------------------------------------
QUEUES == <<"email-queue", "sms-queue", "analytics-queue", "image-processing-queue">>
EMAIL_QUEUE == "email-queue"
\* the queues that receive messages in a run: the email queue holds the
\* messages waiting at the start, the SMS queue (a simulated handler) gets
\* the messages sent by sendToQueue
SendQueues == {QUEUES[2]}
WorkerPrefetch == 1

Programs == {"part_000", "part_001", "email-worker"}
QueueNames == {QUEUES[k] : k \in 1..Len(QUEUES)}
Conns == 1..MaxConns
Tasks == 1..MaxTasks

VARIABLES
    prog,         \* the program of this run
    phase,        \* "starting" | "listening" | "exited"
    connState,    \* connection id -> "free" | "open" | "closed"
    chanState,    \* channel of that connection -> "none" | "open" | "closed"
    prefetch,     \* channel -> basic.qos limit, 0 = unlimited
    declared,     \* queues that exist at the broker
    queues,       \* queue -> ready messages, head first
    unacked,      \* delivered, unresolved messages: [id, wf, q, ch]
    consumers,    \* subscriptions: [q, ch]
    closeL,       \* connections carrying the program's 'close' listener
    errorL,       \* connections carrying the program's 'error' listener
    connection,   \* the program's connection variable, 0 = null
    channel,      \* the program's channel variable, 0 = null
    isConnected,  \* RabbitMQService.isConnected
    timers,       \* pending setTimeout(reconnect, 5000) timers
    tasks,        \* live async calls
    dels,         \* consumer callback invocations, in delivery order
    nextConn,     \* next connection id
    nextMsg       \* next message id

brokerVars == <<connState, chanState, prefetch, declared, queues, unacked, consumers>>
vars == <<prog, phase, connState, chanState, prefetch, declared, queues,
          unacked, consumers, closeL, errorL, connection, channel, isConnected,
          timers, tasks, dels, nextConn, nextMsg>>

\* ---- helpers ---------------------------------------------------------------
IdleTask == [kind |-> "none", pc |-> "", q |-> "", conn |-> 0, ach |-> 0, i |-> 0,
             calm |-> FALSE, out |-> "", calls |-> <<>>, wire |-> <<>>, res |-> <<>>]

MainTask(p) ==
    [IdleTask EXCEPT !.kind = CASE p = "part_000" -> "start"
                               [] p = "part_001" -> "conn"
                               [] OTHER -> "setup",
                     !.pc = "c1"]

Msg(id, wf) == [id |-> id, wf |-> wf]

RECURSIVE SortById(_)
SortById(S) ==
    IF S = {} THEN <<>>
    ELSE LET m == CHOOSE x \in S : \A y \in S : x.id <= y.id
         IN <<Msg(m.id, m.wf)>> \o SortById(S \ {m})

\* the broker returns the unresolved messages of closed channels to their queues
RequeueClosed(qs, un, C) ==
    [q \in DOMAIN qs |-> SortById({u \in un : u.ch \in C /\ u.q = q}) \o qs[q]]

FreeSlots == {t \in Tasks : tasks[t].kind = "none"}
FirstFree == CHOOSE t \in FreeSlots : \A u \in FreeSlots : t <= u

\* the slots of the requests served once the program is up
RequestSlots == FreeSlots \ {1}
FirstRequestSlot == CHOOSE t \in RequestSlots : \A u \in RequestSlots : t <= u

\* a loss of connectivity is noticed by every publish call and every
\* shutdown in progress
Disturb(ts) ==
    [t \in Tasks |-> IF ts[t].kind \in {"send", "post", "sigint", "status"} /\ ts[t].pc # "done"
                     THEN [ts[t] EXCEPT !.calm = FALSE] ELSE ts[t]]

\* A callback whose handler has settled resumes in a microtask, which runs
\* before the event loop takes the next event, timer or I/O completion.
MicrotaskPending ==
    \E k \in 1..Len(dels) : dels[k].pc = "await" /\ dels[k].h \in {"ok", "threw"}

Ready == phase # "exited" /\ ~MicrotaskPending

\* ---- initial state ---------------------------------------------------------
\* The durable queues as other producers left them before the program
\* started: n messages on the email queue; wfs[k] is FALSE for a body that
\* is not JSON.
Backlog(n, wfs) ==
    [q \in QueueNames |->
        IF q = EMAIL_QUEUE THEN [k \in 1..n |-> Msg(k, wfs[k])] ELSE <<>>]

Init ==
    /\ prog \in Programs
    /\ phase = IF prog = "part_000" THEN "starting" ELSE "listening"
    /\ connState = [c \in Conns |-> "free"]
    /\ chanState = [c \in Conns |-> "none"]
    /\ prefetch = [c \in Conns |-> 0]
    /\ \E n \in 0..(IF prog = "part_001" THEN 0 ELSE MaxMsgs) :
         \E wfs \in [1..n -> BOOLEAN] :
            /\ queues = Backlog(n, wfs)
            /\ nextMsg = n + 1
    /\ declared = {q \in QueueNames : queues[q] # <<>>}
    /\ unacked = {}
    /\ consumers = {}
    /\ closeL = {}
    /\ errorL = {}
    /\ connection = 0
    /\ channel = 0
    /\ isConnected = FALSE
    /\ timers = 0
    /\ tasks = [t \in Tasks |-> IF t = 1 THEN MainTask(prog) ELSE IdleTask]
    /\ dels = <<>>
    /\ nextConn = 1

\* ---- the broker and the network --------------------------------------------
\* The connections in C close (the broker stopped, the network failed, a
\* heartbeat was missed).  amqplib emits 'error' (only for a fatal cause) and
\* then 'close' on each; the program's listeners run.
LostWith(C, withError, ts) ==
    /\ connState' = [c \in Conns |-> IF c \in C THEN "closed" ELSE connState[c]]
    /\ chanState' = [c \in Conns |-> IF c \in C /\ chanState[c] = "open"
                                     THEN "closed" ELSE chanState[c]]
    /\ queues' = RequeueClosed(queues, unacked, C)
    /\ unacked' = {u \in unacked : u.ch \notin C}
    /\ consumers' = {s \in consumers : s.ch \notin C}
    /\ isConnected' = IF withError /\ C \cap errorL # {} /\ prog = "part_000"
                      THEN FALSE ELSE isConnected
    /\ channel' = IF prog = "part_001" /\ C \cap closeL # {} THEN 0 ELSE channel
    /\ timers' = timers + Cardinality(C \cap closeL)
    /\ tasks' = ts
    /\ UNCHANGED <<prog, phase, prefetch, declared, closeL, errorL, connection,
                   dels, nextConn, nextMsg>>

Lost(C, withError) == LostWith(C, withError, Disturb(tasks))

ConnectionLost(c, withError) ==
    /\ connState[c] = "open"
    /\ Ready
    /\ Lost({c}, withError)

\* the record kept of a finished request: res holds the status codes of the
\* responses the handler wrote (res.status(...).json(...)), in order
Done(tk, out) ==
    [IdleTask EXCEPT !.kind = tk.kind, !.pc = "done", !.calm = tk.calm, !.out = out,
                     !.res = tk.res]

\* the catch block of POST /api/users in part_000, entered after the 201
\* response was written: the error is neither a ValidationError nor a
\* duplicate key, so res.status(500).json(...) is called.  The headers are
\* sent already: the call throws ERR_HTTP_HEADERS_SENT inside the catch
\* block and the promise of the handler rejects.
UsersCatch(tk) == [Done(tk, "threw") EXCEPT !.res = Append(tk.res, 500), !.i = tk.i]

\* the catch block of socket.on('send-message'): socket.emit('error', ...)
ChatCatch(tk) == [Done(tk, "err") EXCEPT !.calls = Append(tk.calls, "error")]

\* ---- connecting ------------------------------------------------------------
\* GET /api/queues/status: the entry of queueStatus for queue q; exists says
\* whether the queue existed at the broker when it was checked
StatusEntry(q, exists, status, n) ==
    [q |-> q, exists |-> exists, status |-> status, messageCount |-> n]

\* GET /api/queues/status after the getQueueInfo call for tk.q has settled
\* with entry e: the loop calls getQueueInfo for the next queue name
\* (connect() first when the flag is false), or after the last one res.json
\* answers with success: true
StatusNext(tk, e, connected, ch) ==
    IF tk.i < Len(QUEUES)
    THEN [tk EXCEPT !.calls = Append(@, e), !.i = @ + 1, !.q = QUEUES[tk.i + 1],
                    !.pc = IF connected THEN "check" ELSE "c1", !.ach = ch]
    ELSE [Done(tk, "ok") EXCEPT !.calls = Append(tk.calls, e), !.res = <<200>>]

\* a catch block that arms the reconnect timer twice
CatchTimersTwice(k, n) == IF k \in {"conn", "setup"} THEN n + 2 ELSE n

\* the timers pending after the catch block of a call of kind k:
\* setTimeout(connectRabbitMQ, 5000) / setTimeout(setupEmailConsumer, 5000)
CatchTimers(k, n) == IF k \in {"conn", "setup"} THEN n + 1 ELSE n

\* the catch block that ends the failed call t:
\*   part_000     connect() clears isConnected and rethrows; sendToQueue and
\*                consumeQueue rethrow, getQueueInfo rejects; startServer
\*                exits, startBackgroundWorkers
\*                logs and returns, after which startServer listens
\*   part_001     channel = null, setTimeout(connectRabbitMQ, 5000)
\*   email-worker setTimeout(setupEmailConsumer, 5000)
Catch(t) ==
    LET k == tasks[t].kind
        inConnect == tasks[t].pc \in {"c1", "c2"}
    IN /\ isConnected' = IF prog = "part_000" /\ inConnect THEN FALSE ELSE isConnected
       /\ channel' = IF k = "conn" THEN 0 ELSE channel
       /\ timers' = CatchTimers(k, timers)
       /\ phase' = IF k = "start"
                   THEN (IF tasks[t].i = 0 THEN "exited" ELSE "listening")
                   ELSE phase
       /\ tasks' = [tasks EXCEPT ![t] =
                      IF k \in {"send", "info"}
                      THEN Done(IF tasks[t].pc = "c1" THEN [@ EXCEPT !.calm = FALSE] ELSE @, "err")
                      ELSE IF k = "users" THEN UsersCatch(@)
                      ELSE IF k = "chat" THEN ChatCatch(@)
                      ELSE IF k = "status"
                      THEN StatusNext(@, StatusEntry(@.q, @.q \in declared, "not_found", 0),
                                      FALSE, channel)
                      ELSE IdleTask]

\* await amqp.connect(...) resolves
ConnectOpen(t) ==
    /\ tasks[t].pc = "c1"
    /\ Ready
    /\ nextConn <= MaxConns
    /\ connState' = [connState EXCEPT ![nextConn] = "open"]
    /\ connection' = nextConn
    /\ tasks' = [tasks EXCEPT ![t].pc = "c2", ![t].conn = nextConn]
    /\ nextConn' = nextConn + 1
    /\ UNCHANGED <<prog, phase, chanState, prefetch, declared, queues,
                   unacked, consumers, closeL, errorL, channel, isConnected,
                   timers, dels, nextMsg>>

\* await amqp.connect(...) rejects: the broker is not reachable
ConnectRefused(t) ==
    /\ tasks[t].pc = "c1"
    /\ Ready
    /\ Catch(t)
    /\ UNCHANGED <<prog, brokerVars, closeL, errorL, connection, dels, nextConn,
                   nextMsg>>

\* the queue whose assertQueue the call issues next
NextQueue(tk) ==
    CASE tk.kind \in {"send", "info", "users", "chat", "status"} -> tk.q
      [] tk.kind = "setup" -> EMAIL_QUEUE
      [] tk.kind = "start" -> QUEUES[IF tk.i = 0 THEN 1 ELSE tk.i]
      [] OTHER -> QUEUES[1]

\* await connection.createChannel() resolves; the call goes on to its first
\* assertQueue (getQueueInfo: to checkQueue)
ChannelOpen(t) ==
    LET tk == tasks[t] IN
    /\ tk.pc = "c2"
    /\ Ready
    /\ connState[tk.conn] = "open"
    /\ chanState' = [chanState EXCEPT ![tk.conn] = "open"]
    /\ channel' = tk.conn
    /\ isConnected' = IF prog = "part_000" THEN TRUE ELSE isConnected
    /\ errorL' = IF prog = "part_000" THEN errorL \cup {connection} ELSE errorL
    /\ tasks' = [tasks EXCEPT ![t] =
                   [tk EXCEPT !.pc = IF tk.kind \in {"info", "status"} THEN "check" ELSE "assert",
                              !.ach = tk.conn, !.q = NextQueue(tk),
                              !.i = IF tk.kind \in {"send", "info", "chat"} THEN 0
                                    ELSE IF tk.i = 0 THEN 1 ELSE tk.i]]
    /\ UNCHANGED <<prog, phase, connState, prefetch, declared, queues,
                   unacked, consumers, closeL, connection, timers, dels, nextConn,
                   nextMsg>>

\* await connection.createChannel() rejects
ChannelRefused(t) ==
    /\ tasks[t].pc = "c2"
    /\ Ready
    /\ connState[tasks[t].conn] # "open"
    /\ Catch(t)
    /\ UNCHANGED <<prog, brokerVars, closeL, errorL, connection, dels, nextConn,
                   nextMsg>>

ChanUsable(ch) == ch # 0 /\ chanState[ch] = "open"

\* await channel.assertQueue(q, {durable: true}) rejects
AssertFailed(t) ==
    /\ tasks[t].pc = "assert"
    /\ Ready
    /\ ~ChanUsable(tasks[t].ach)
    /\ Catch(t)
    /\ UNCHANGED <<prog, brokerVars, closeL, errorL, connection, dels, nextConn,
                   nextMsg>>

\* setTimeout(connectRabbitMQ | setupEmailConsumer, 5000) fires
TimerFire ==
    /\ timers > 0
    /\ Ready
    /\ FreeSlots # {}
    /\ timers' = timers - 1
    /\ tasks' = [tasks EXCEPT ![FirstFree] = MainTask(prog)]
    /\ UNCHANGED <<prog, phase, brokerVars, closeL, errorL, connection, channel,
                   isConnected, dels, nextConn, nextMsg>>

\* ---- part_000: startServer and startBackgroundWorkers ------------------------
\* what startServer does once startBackgroundWorkers has returned
Listen(t) ==
    /\ phase' = "listening"
    /\ tasks' = [tasks EXCEPT ![t] = IdleTask]

\* a consumeQueue that limits its channel to one unacknowledged message
ServiceQosOne(pf, ch) == [pf EXCEPT ![ch] = 1]

\* what consumeQueue does to the prefetch limits: it makes no
\* channel.prefetch call, the limit of its channel stays as it is
ServiceQos(pf, ch) == pf

\* consumeQueue: assertQueue resolved, channel.consume(...) is issued on
\* this.channel
WorkerAssertOk(t) ==
    LET tk == tasks[t] IN
    /\ Ready
    /\ tk.kind = "start" /\ tk.pc = "assert"
    /\ ChanUsable(tk.ach)
    /\ declared' = declared \cup {tk.q}
    /\ tasks' = [tasks EXCEPT ![t].pc = "consume", ![t].ach = channel]
    /\ prefetch' = ServiceQos(prefetch, channel)
    /\ UNCHANGED <<prog, phase, connState, chanState, queues,
                   unacked, consumers, closeL, errorL, connection, channel,
                   isConnected, timers, dels, nextConn, nextMsg>>

\* consumeQueue returns; startBackgroundWorkers calls consumeQueue for the
\* next queue, or returns after the last one
WorkerConsumeOk(t) ==
    LET tk == tasks[t] IN
    /\ Ready
    /\ tk.kind = "start" /\ tk.pc = "consume"
    /\ ChanUsable(tk.ach)
    /\ consumers' = consumers \cup {[q |-> tk.q, ch |-> tk.ach]}
    /\ IF tk.i = Len(QUEUES) THEN Listen(t)
       ELSE /\ phase' = phase
            /\ tasks' = [tasks EXCEPT ![t] =
                   [tk EXCEPT !.i = tk.i + 1, !.q = QUEUES[tk.i + 1],
                              !.pc = IF isConnected THEN "assert" ELSE "c1",
                              !.ach = channel]]
    /\ UNCHANGED <<prog, connState, chanState, prefetch, declared, queues,
                   unacked, closeL, errorL, connection, channel, isConnected,
                   timers, dels, nextConn, nextMsg>>

\* channel.consume rejects: consumeQueue rethrows, startBackgroundWorkers logs
WorkerConsumeFailed(t) ==
    /\ Ready
    /\ tasks[t].kind = "start" /\ tasks[t].pc = "consume"
    /\ ~ChanUsable(tasks[t].ach)
    /\ Catch(t)
    /\ UNCHANGED <<prog, brokerVars, closeL, errorL, connection, dels, nextConn,
                   nextMsg>>

\* ---- part_000: RabbitMQService.sendToQueue -----------------------------------
SendStart(q) ==
    /\ Ready
    /\ prog = "part_000"
    /\ phase = "listening"
    /\ RequestSlots # {}
    /\ nextMsg + Cardinality({t \in Tasks : tasks[t].kind = "send" /\ tasks[t].pc # "done"})
          <= MaxMsgs
    /\ tasks' = [tasks EXCEPT ![FirstRequestSlot] =
                   [IdleTask EXCEPT !.kind = "send", !.q = q, !.calm = TRUE,
                                    !.pc = IF isConnected THEN "assert" ELSE "c1",
                                    !.ach = channel]]
    /\ UNCHANGED <<prog, phase, brokerVars, closeL, errorL, connection, channel,
                   isConnected, timers, dels, nextConn, nextMsg>>

\* a publish that sends the message twice
PublishedTwice(qs, q, m) == [qs EXCEPT ![q] = Append(Append(@, m), m)]

\* this.channel.sendToQueue(queueName, messageBuffer, {persistent: true}) on
\* an open channel: the broker appends the message to the queue
Published(qs, q, m) == [qs EXCEPT ![q] = Append(@, m)]

\* the messageCount that channel.checkQueue reports: the ready messages
MessageCount(qs, q) == Len(qs[q])

\* assertQueue resolved; the envelope is built and this.channel.sendToQueue is
\* called; on a closed channel it throws
SendAssertOk(t) ==
    LET tk == tasks[t] IN
    /\ Ready
    /\ tk.kind = "send" /\ tk.pc = "assert"
    /\ ChanUsable(tk.ach)
    /\ declared' = declared \cup {tk.q}
    /\ IF ChanUsable(channel)
       THEN /\ queues' = Published(queues, tk.q, Msg(nextMsg, TRUE))
            /\ nextMsg' = nextMsg + 1
            /\ tasks' = [tasks EXCEPT ![t] = Done(tk, "ok")]
       ELSE /\ UNCHANGED <<queues, nextMsg>>
            /\ tasks' = [tasks EXCEPT ![t] = Done(tk, "err")]
    /\ UNCHANGED <<prog, phase, connState, chanState, prefetch, unacked,
                   consumers, closeL, errorL, connection, channel, isConnected,
                   timers, dels, nextConn>>

\* ---- part_001: connectRabbitMQ and POST /api/users -----------------------------
\* one iteration of "for (const queue of QUEUES) await channel.assertQueue";
\* after the last one the 'close' and 'error' listeners are registered
AppAssertOk(t) ==
    LET tk == tasks[t] IN
    /\ Ready
    /\ tk.kind = "conn" /\ tk.pc = "assert"
    /\ ChanUsable(tk.ach)
    /\ declared' = declared \cup {tk.q}
    /\ IF tk.i < Len(QUEUES)
       THEN IF channel = 0
            THEN Catch(t) /\ UNCHANGED <<closeL, errorL>>
            ELSE /\ tasks' = [tasks EXCEPT ![t] =
                       [tk EXCEPT !.i = tk.i + 1, !.q = QUEUES[tk.i + 1], !.ach = channel]]
                 /\ UNCHANGED <<closeL, errorL, isConnected, channel, timers, phase>>
       ELSE /\ closeL' = closeL \cup {connection}
            /\ errorL' = errorL \cup {connection}
            /\ tasks' = [tasks EXCEPT ![t] = IdleTask]
            /\ UNCHANGED <<isConnected, channel, timers, phase>>
    /\ UNCHANGED <<prog, connState, chanState, prefetch, queues, unacked,
                   consumers, connection, dels, nextConn, nextMsg>>

PostStart ==
    /\ Ready
    /\ prog = "part_001"
    /\ RequestSlots # {}
    /\ tasks' = [tasks EXCEPT ![FirstRequestSlot] =
                   [IdleTask EXCEPT !.kind = "post", !.pc = "save", !.calm = TRUE]]
    /\ UNCHANGED <<prog, phase, brokerVars, closeL, errorL, connection, channel,
                   isConnected, timers, dels, nextConn, nextMsg>>

\* the ways newUser.save() rejects, and the response the catch block of
\* POST /api/users writes for each
SaveErrors == {"ValidationError", "E11000", "other"}
ErrorResponse(e) ==
    CASE e = "ValidationError" -> 400
      [] e = "E11000" -> 409
      [] OTHER -> 500

\* the queues POST /api/users publishes to, in order
PostQueues(phone) ==
    IF phone THEN <<QUEUES[3], QUEUES[1], QUEUES[2], QUEUES[4]>>
    ELSE <<QUEUES[3], QUEUES[1], QUEUES[4]>>

\* newUser.save() resolved: the publish block, then the 201 response (a
\* throw of channel.sendToQueue is caught inside the block).  The broker
\* drops a message sent to a queue that does not exist; calls keeps the
\* sendToQueue calls that met that fate.
PostSaved(t, phone) ==
    LET tk == [tasks[t] EXCEPT !.res = <<201>>]
        pq == PostQueues(phone)
        at(q) == CHOOSE k \in 1..Len(pq) : pq[k] = q
    IN
    /\ Ready
    /\ tk.kind = "post" /\ tk.pc = "save"
    /\ IF channel = 0
       THEN /\ tasks' = [tasks EXCEPT ![t] = Done(tk, "skipped")]
            /\ UNCHANGED <<queues, nextMsg>>
       ELSE IF chanState[channel] # "open"
       THEN /\ tasks' = [tasks EXCEPT ![t] = Done(tk, "err")]
            /\ UNCHANGED <<queues, nextMsg>>
       ELSE /\ tasks' = [tasks EXCEPT ![t] =
                   [Done(tk, "ok") EXCEPT !.calls = SelectSeq(pq, LAMBDA q : q \notin declared)]]
            /\ queues' = [q \in QueueNames |->
                           IF q \in declared /\ \E k \in 1..Len(pq) : pq[k] = q
                           THEN Append(queues[q], Msg(nextMsg + at(q) - 1, TRUE))
                           ELSE queues[q]]
            /\ nextMsg' = nextMsg + Len(pq)
    /\ UNCHANGED <<prog, phase, connState, chanState, prefetch, declared,
                   unacked, consumers, closeL, errorL, connection, channel,
                   isConnected, timers, dels, nextConn>>

\* a failed save that publishes all the same
SaveRejectedPublishing(qs, e) == [qs EXCEPT ![QUEUES[3]] = Append(@, Msg(0, TRUE))]

\* what a rejected newUser.save() does to the queues: control goes from the
\* await to the catch block, past every sendToQueue call
SaveRejected(qs, e) == qs

\* newUser.save() rejected: the 400/409/500 response, nothing is published
PostSaveFailed(t, e) ==
    /\ Ready
    /\ tasks[t].kind = "post" /\ tasks[t].pc = "save"
    /\ tasks' = [tasks EXCEPT ![t] =
                   Done([tasks[t] EXCEPT !.res = <<ErrorResponse(e)>>], "rejected")]
    /\ queues' = SaveRejected(queues, e)
    /\ UNCHANGED <<connState, chanState, prefetch, declared, unacked, consumers>>
    /\ UNCHANGED <<prog, phase, closeL, errorL, connection, channel,
                   isConnected, timers, dels, nextConn, nextMsg>>

\* ---- email-worker: setupEmailConsumer --------------------------------------
\* assertQueue resolved: prefetch(1), consume and the 'close' listener
SetupAssertOk(t) ==
    LET tk == tasks[t] IN
    /\ Ready
    /\ tk.kind = "setup" /\ tk.pc = "assert"
    /\ ChanUsable(tk.ach)
    /\ declared' = declared \cup {EMAIL_QUEUE}
    /\ prefetch' = [prefetch EXCEPT ![tk.ach] = WorkerPrefetch]
    /\ consumers' = consumers \cup {[q |-> EMAIL_QUEUE, ch |-> tk.ach]}
    /\ closeL' = closeL \cup {tk.conn}
    /\ tasks' = [tasks EXCEPT ![t] = IdleTask]
    /\ UNCHANGED <<prog, phase, connState, chanState, queues, unacked,
                   errorL, connection, channel, isConnected, timers, dels,
                   nextConn, nextMsg>>

\* ---- the consumer callbacks -------------------------------------------------
\* the channel object the callback acks and nacks on: this.channel in
\* part_000 (read when the call is made), the channel of the enclosing
\* setupEmailConsumer invocation in email-worker
CallbackChannel(d) == IF prog = "part_000" THEN channel ELSE d.ch

\* a callback that calls the handler without awaiting it
AwaitDoneNoAwait(h) == h \in {"send", "timer", "log", "ok"}

\* "await callback(content, message)" / "await sendEmail(emailData)": the
\* callback goes on to the ack once the handler's promise is fulfilled
AwaitDone(h) == h = "ok"

\* a callback that nacks with requeue after the handler returned
SuccessCallRequeue == [op |-> "nack", requeue |-> TRUE]

\* the call made after the handler returned
SuccessCall == [op |-> "ack", requeue |-> FALSE]

\* the call made in the catch block: nack(message, false, true) in part_000,
\* nack(msg, false, false) in email-worker
FailureCall(p) == [op |-> "nack", requeue |-> (p = "part_000")]

\* the first await of the handler registered for queue q
HandlerFirstAwait(q) == IF q = EMAIL_QUEUE THEN "send" ELSE "timer"

\* The call c (an ack or a nack) of delivery d made on channel X, against the
\* broker state (qs, un, cs, cons).  On a closed channel the call throws; for
\* a delivery tag the channel does not hold the broker closes the channel.
Resolve(c, d, X, qs, un, cs, cons) ==
    LET u == [id |-> d.id, wf |-> d.wf, q |-> d.q, ch |-> d.ch] IN
    IF ~(X # 0 /\ cs[X] = "open")
    THEN [queues |-> qs, unacked |-> un, chanState |-> cs, consumers |-> cons,
          result |-> "threw"]
    ELSE IF X = d.ch /\ u \in un
    THEN [queues |-> IF c.op = "nack" /\ c.requeue
                     THEN [qs EXCEPT ![d.q] = <<Msg(d.id, d.wf)>> \o @] ELSE qs,
          unacked |-> un \ {u}, chanState |-> cs, consumers |-> cons,
          result |-> "done"]
    ELSE [queues |-> RequeueClosed(qs, un, {X}),
          unacked |-> {x \in un : x.ch # X},
          chanState |-> [cs EXCEPT ![X] = "closed"],
          consumers |-> {x \in cons : x.ch # X},
          result |-> "stray"]

Call(c, r) == [op |-> c.op, requeue |-> c.requeue, result |-> r.result]

\* the broker pushes the head of the queue to a subscription; the callback
\* runs to its first await: JSON.parse, and for a body that parses the call
\* of the handler
Deliver(s) ==
    LET m == Head(queues[s.q])
        d0 == [id |-> m.id, wf |-> m.wf, q |-> s.q, ch |-> s.ch, pc |-> "await",
               h |-> "none", res |-> <<>>, sendFailed |-> FALSE, logged |-> FALSE,
               live |-> TRUE,
               afterOk |-> \E j \in 1..Len(dels) :
                              dels[j].id = m.id /\ dels[j].h = "ok"]
        qs1 == [queues EXCEPT ![s.q] = Tail(@)]
        un1 == unacked \cup {[id |-> m.id, wf |-> m.wf, q |-> s.q, ch |-> s.ch]}
        r == Resolve(FailureCall(prog), d0, CallbackChannel(d0), qs1, un1,
                     chanState, consumers)
    IN
    /\ Ready
    /\ s \in consumers
    /\ queues[s.q] # <<>>
    /\ Len(dels) < MaxDeliv
    /\ \/ prefetch[s.ch] = 0
       \/ Cardinality({x \in unacked : x.ch = s.ch}) < prefetch[s.ch]
    /\ IF m.wf
       THEN /\ queues' = qs1
            /\ unacked' = un1
            /\ dels' = Append(dels, [d0 EXCEPT !.h = HandlerFirstAwait(s.q)])
            /\ UNCHANGED <<chanState, consumers>>
       ELSE /\ queues' = r.queues
            /\ unacked' = r.unacked
            /\ chanState' = r.chanState
            /\ consumers' = r.consumers
            /\ dels' = Append(dels,
                   [d0 EXCEPT !.pc = IF r.result = "threw" THEN "rejected" ELSE "settled",
                              !.res = <<Call(FailureCall(prog), r)>>])
    /\ UNCHANGED <<prog, phase, connState, prefetch, declared, closeL,
                   errorL, connection, channel, isConnected, timers, tasks,
                   nextConn, nextMsg>>

HandlerVars == <<prog, phase, brokerVars, closeL, errorL, connection, channel,
                 isConnected, timers, tasks, nextConn, nextMsg>>

\* smtpTransporter.sendMail / transporter.sendMail settles (in part_000
\* also the simulated send when no transporter is configured).  part_000
\* catches the rejection and records sendStatus = 'error'; sendEmail in
\* email-worker rethrows it.
HSend(k, ok) ==
    /\ k <= Len(dels)
    /\ dels[k].h = "send"
    /\ Ready
    /\ dels' = [dels EXCEPT ![k].sendFailed = ~ok,
                            ![k].h = IF prog = "part_000" THEN "log"
                                     ELSE IF ok THEN "ok" ELSE "threw"]
    /\ UNCHANGED HandlerVars

\* the setTimeout that simulates the SMS, analytics and image work elapses
HTimer(k) ==
    /\ k <= Len(dels)
    /\ dels[k].h = "timer"
    /\ Ready
    /\ dels' = [dels EXCEPT ![k].h = "log"]
    /\ UNCHANGED HandlerVars

\* await Log.create(...) settles; a rejection rejects the handler
HLog(k, ok) ==
    /\ k <= Len(dels)
    /\ dels[k].h = "log"
    /\ Ready
    /\ dels' = [dels EXCEPT ![k].logged = ok, ![k].h = IF ok THEN "ok" ELSE "threw"]
    /\ UNCHANGED HandlerVars

ResolveVars == <<prog, phase, connState, prefetch, declared, closeL,
                 errorL, connection, channel, isConnected, timers, tasks,
                 nextConn, nextMsg>>

\* the handler returned: channel.ack(message); when the ack throws, the catch
\* block calls nack on the same channel
DoAck(k) ==
    LET d == dels[k]
        X == CallbackChannel(d)
        r == Resolve(SuccessCall, d, X, queues, unacked, chanState, consumers)
    IN
    /\ k <= Len(dels)
    /\ d.pc = "await"
    /\ AwaitDone(d.h)
    /\ phase # "exited"
    /\ queues' = r.queues
    /\ unacked' = r.unacked
    /\ chanState' = r.chanState
    /\ consumers' = r.consumers
    /\ dels' = [dels EXCEPT ![k] =
                 [d EXCEPT !.live = (chanState[d.ch] = "open"),
                           !.pc = IF r.result = "threw" THEN "rejected" ELSE "settled",
                           !.res = IF r.result = "threw"
                                   THEN <<Call(SuccessCall, r), Call(FailureCall(prog), r)>>
                                   ELSE <<Call(SuccessCall, r)>>]]
    /\ UNCHANGED ResolveVars

\* the handler threw or rejected: the catch block
DoNack(k) ==
    LET d == dels[k]
        X == CallbackChannel(d)
        r == Resolve(FailureCall(prog), d, X, queues, unacked, chanState, consumers)
    IN
    /\ k <= Len(dels)
    /\ d.pc = "await"
    /\ d.h = "threw"
    /\ phase # "exited"
    /\ queues' = r.queues
    /\ unacked' = r.unacked
    /\ chanState' = r.chanState
    /\ consumers' = r.consumers
    /\ dels' = [dels EXCEPT ![k] =
                 [d EXCEPT !.live = (chanState[d.ch] = "open"),
                           !.pc = IF r.result = "threw" THEN "rejected" ELSE "settled",
                           !.res = <<Call(FailureCall(prog), r)>>]]
    /\ UNCHANGED ResolveVars

Next ==
    \/ \E c \in Conns, e \in BOOLEAN : ConnectionLost(c, e)
    \/ \E t \in Tasks : ConnectOpen(t)
    \/ \E t \in Tasks : ConnectRefused(t)
    \/ \E t \in Tasks : ChannelOpen(t)
    \/ \E t \in Tasks : ChannelRefused(t)
    \/ \E t \in Tasks : AssertFailed(t)
    \/ TimerFire
    \/ \E t \in Tasks : WorkerAssertOk(t)
    \/ \E t \in Tasks : WorkerConsumeOk(t)
    \/ \E t \in Tasks : WorkerConsumeFailed(t)
    \/ \E q \in SendQueues : SendStart(q)
    \/ \E t \in Tasks : SendAssertOk(t)
    \/ \E t \in Tasks : AppAssertOk(t)
    \/ PostStart
    \/ \E t \in Tasks, phone \in BOOLEAN : PostSaved(t, phone)
    \/ \E t \in Tasks, e \in SaveErrors : PostSaveFailed(t, e)
    \/ \E t \in Tasks : SetupAssertOk(t)
    \/ \E q \in QueueNames, c \in Conns : Deliver([q |-> q, ch |-> c])
    \/ \E k \in 1..MaxDeliv, ok \in BOOLEAN : HSend(k, ok)
    \/ \E k \in 1..MaxDeliv : HTimer(k)
    \/ \E k \in 1..MaxDeliv, ok \in BOOLEAN : HLog(k, ok)
    \/ \E k \in 1..MaxDeliv : DoAck(k)
    \/ \E k \in 1..MaxDeliv : DoNack(k)

Spec == Init /\ [][Next]_vars

\* ---- shutdown: the SIGINT handlers --------------------------------------------
SigintRunning == \E t \in Tasks : tasks[t].kind = "sigint"

\* the record of the handler: conn and ach are the connection and the channel
\* that were open when the signal arrived, calls the close calls made so far
SigintTask ==
    [IdleTask EXCEPT !.kind = "sigint", !.calm = TRUE, !.out = "quiet",
                     !.conn = IF connection # 0 /\ connState[connection] = "open"
                              THEN connection ELSE 0,
                     !.ach = IF ChanUsable(channel) THEN channel ELSE 0]

\* the handler goes on without touching the broker
Quiet(ts) ==
    /\ tasks' = ts
    /\ UNCHANGED <<prog, phase, brokerVars, closeL, errorL, connection, channel,
                   isConnected, timers, dels, nextConn, nextMsg>>

\* the process ends: the broker sees its sockets close and requeues what was
\* unacknowledged; no listener runs any more
Exit(ts) ==
    /\ phase' = "exited"
    /\ tasks' = ts
    /\ connState' = [c \in Conns |-> IF connState[c] = "open" THEN "closed" ELSE connState[c]]
    /\ chanState' = [c \in Conns |-> IF chanState[c] = "open" THEN "closed" ELSE chanState[c]]
    /\ queues' = RequeueClosed(queues, unacked, Conns)
    /\ unacked' = {}
    /\ consumers' = {}
    /\ UNCHANGED <<prog, prefetch, declared, closeL, errorL, connection, channel,
                   isConnected, timers, dels, nextConn, nextMsg>>

\* "if (connection) await connection.close()": amqplib emits 'close' on the
\* connection, so a registered 'close' listener runs; on a connection that is
\* closed already the call throws
ConnectionClose(t, tk, throws) ==
    IF connection = 0 THEN Quiet([tasks EXCEPT ![t] = [tk EXCEPT !.pc = "db"]])
    ELSE IF connState[connection] = "open"
    THEN LostWith({connection}, FALSE,
             [Disturb(tasks) EXCEPT ![t] =
                 [tk EXCEPT !.pc = "db",
                            !.calls = Append(@, "connection.close"),
                            !.out = IF connection \in closeL THEN "rearmed" ELSE @]])
    ELSE throws

\* SIGINT arrives; the handler runs to its first await.
\*   email-worker  process.exit(0)
\*   part_000      connection.close() outside any try: when it throws, the
\*                 rejection of the handler is unhandled, which ends the
\*                 process or only warns, depending on the Node version
\*   part_001      channel.close() if channel is set, else connection.close();
\*                 a throw is caught and logged
Sigint(crash) ==
    LET t == FirstFree
        tk == SigintTask
    IN
    /\ Ready
    /\ ~SigintRunning
    /\ FreeSlots # {}
    /\ CASE prog = "email-worker" ->
              Exit([tasks EXCEPT ![t] = [tk EXCEPT !.pc = "done"]])
         [] prog = "part_000" ->
              ConnectionClose(t, tk,
                  IF crash
                  THEN Exit([tasks EXCEPT ![t] = [tk EXCEPT !.pc = "done", !.out = "threw"]])
                  ELSE Quiet([tasks EXCEPT ![t] = [tk EXCEPT !.pc = "done", !.out = "threw"]]))
         [] OTHER ->
              IF channel = 0
              THEN ConnectionClose(t, tk, Quiet([tasks EXCEPT ![t] = [tk EXCEPT !.pc = "db"]]))
              ELSE IF ChanUsable(channel)
              THEN /\ chanState' = [chanState EXCEPT ![channel] = "closed"]
                   /\ queues' = RequeueClosed(queues, unacked, {channel})
                   /\ unacked' = {u \in unacked : u.ch # channel}
                   /\ consumers' = {x \in consumers : x.ch # channel}
                   /\ tasks' = [tasks EXCEPT ![t] =
                         [tk EXCEPT !.pc = "chan", !.calls = <<"channel.close">>]]
                   /\ UNCHANGED <<prog, phase, connState, prefetch, declared, closeL,
                                  errorL, connection, channel, isConnected, timers,
                                  dels, nextConn, nextMsg>>
              ELSE Quiet([tasks EXCEPT ![t] = [tk EXCEPT !.pc = "db"]])

\* part_001: channel.close() resolved
SigintChannelClosed(t) ==
    /\ Ready
    /\ tasks[t].kind = "sigint" /\ tasks[t].pc = "chan"
    /\ ConnectionClose(t, tasks[t], Quiet([tasks EXCEPT ![t].pc = "db"]))

\* mongoose.connection.close() settled: process.exit(0)
SigintExit(t) ==
    /\ Ready
    /\ tasks[t].kind = "sigint" /\ tasks[t].pc = "db"
    /\ Exit([tasks EXCEPT ![t].pc = "done"])

NextShutdown ==
    \/ Next
    \/ \E crash \in BOOLEAN : Sigint(crash)
    \/ \E t \in Tasks : SigintChannelClosed(t)
    \/ \E t \in Tasks : SigintExit(t)

SpecShutdown == Init /\ [][NextShutdown]_vars

\* ---- part_000: RabbitMQService.getQueueInfo --------------------------------------
\* getQueueInfo(q) is called (GET /api/queues/status)
InfoStart(q) ==
    /\ Ready
    /\ prog = "part_000"
    /\ phase = "listening"
    /\ RequestSlots # {}
    /\ tasks' = [tasks EXCEPT ![FirstRequestSlot] =
                   [IdleTask EXCEPT !.kind = "info", !.q = q,
                                    !.pc = IF isConnected THEN "check" ELSE "c1",
                                    !.ach = channel]]
    /\ UNCHANGED <<prog, phase, brokerVars, closeL, errorL, connection, channel,
                   isConnected, timers, dels, nextConn, nextMsg>>

\* await this.channel.checkQueue(q) settles.  On a closed channel it rejects.
\* For a queue that does not exist the broker answers with the channel
\* exception 404 NOT_FOUND, which closes the channel: its subscriptions end
\* and its unacknowledged messages return to their queues.
InfoCheck(t) ==
    LET tk == tasks[t] IN
    /\ Ready
    /\ tk.kind = "info" /\ tk.pc = "check"
    /\ IF ~ChanUsable(tk.ach)
       THEN /\ tasks' = [tasks EXCEPT ![t] = Done(tk, "err")]
            /\ UNCHANGED <<chanState, queues, unacked, consumers>>
       ELSE IF tk.q \in declared
       THEN /\ tasks' = [tasks EXCEPT ![t] =
                   [Done(tk, "ok") EXCEPT !.i = MessageCount(queues, tk.q)]]
            /\ UNCHANGED <<chanState, queues, unacked, consumers>>
       ELSE /\ tasks' = [tasks EXCEPT ![t] = Done(tk, "not_found")]
            /\ chanState' = [chanState EXCEPT ![tk.ach] = "closed"]
            /\ queues' = RequeueClosed(queues, unacked, {tk.ach})
            /\ unacked' = {u \in unacked : u.ch # tk.ach}
            /\ consumers' = {x \in consumers : x.ch # tk.ach}
    /\ UNCHANGED <<prog, phase, connState, prefetch, declared, closeL, errorL,
                   connection, channel, isConnected, timers, dels, nextConn, nextMsg>>

NextInfo ==
    \/ Next
    \/ \E q \in QueueNames : InfoStart(q)
    \/ \E t \in Tasks : InfoCheck(t)

SpecInfo == Init /\ [][NextInfo]_vars

\* ---- part_000: GET /api/queues/status --------------------------------------------
\* the request arrives and calls getQueueInfo for the first queue name; calm
\* says that it found the connection and the channel of the service open
StatusStart ==
    /\ Ready
    /\ prog = "part_000"
    /\ phase = "listening"
    /\ FreeSlots # {}
    /\ tasks' = [tasks EXCEPT ![FirstFree] =
                   [IdleTask EXCEPT !.kind = "status", !.i = 1, !.q = QUEUES[1],
                                    !.calm = ChanUsable(channel) /\ connState[channel] = "open",
                                    !.pc = IF isConnected THEN "check" ELSE "c1",
                                    !.ach = channel]]
    /\ UNCHANGED <<prog, phase, brokerVars, closeL, errorL, connection, channel,
                   isConnected, timers, dels, nextConn, nextMsg>>

\* await this.channel.checkQueue(q) of the current getQueueInfo call settles,
\* as in InfoCheck; a rejection is caught inside the loop and the queue is
\* entered as not_found
StatusCheck(t) ==
    LET tk == tasks[t] IN
    /\ Ready
    /\ tk.kind = "status" /\ tk.pc = "check"
    /\ IF ~ChanUsable(tk.ach)
       THEN /\ tasks' = [tasks EXCEPT ![t] =
                   StatusNext(tk, StatusEntry(tk.q, tk.q \in declared, "not_found", 0),
                              isConnected, channel)]
            /\ UNCHANGED <<chanState, queues, unacked, consumers>>
       ELSE IF tk.q \in declared
       THEN /\ tasks' = [tasks EXCEPT ![t] =
                   StatusNext(tk, StatusEntry(tk.q, TRUE, "ok", MessageCount(queues, tk.q)),
                              isConnected, channel)]
            /\ UNCHANGED <<chanState, queues, unacked, consumers>>
       ELSE /\ tasks' = [tasks EXCEPT ![t] =
                   StatusNext(tk, StatusEntry(tk.q, FALSE, "not_found", 0),
                              isConnected, channel)]
            /\ chanState' = [chanState EXCEPT ![tk.ach] = "closed"]
            /\ queues' = RequeueClosed(queues, unacked, {tk.ach})
            /\ unacked' = {u \in unacked : u.ch # tk.ach}
            /\ consumers' = {x \in consumers : x.ch # tk.ach}
    /\ UNCHANGED <<prog, phase, connState, prefetch, declared, closeL, errorL,
                   connection, channel, isConnected, timers, dels, nextConn, nextMsg>>

\* GET /api/queues/status with the connections, the startup and the
\* sendToQueue calls that decide which queues exist; no message is delivered
NextStatus ==
    \/ \E c \in Conns, e \in BOOLEAN : ConnectionLost(c, e)
    \/ \E t \in Tasks : ConnectOpen(t)
    \/ \E t \in Tasks : ConnectRefused(t)
    \/ \E t \in Tasks : ChannelOpen(t)
    \/ \E t \in Tasks : ChannelRefused(t)
    \/ \E t \in Tasks : AssertFailed(t)
    \/ \E t \in Tasks : WorkerAssertOk(t)
    \/ \E t \in Tasks : WorkerConsumeOk(t)
    \/ \E t \in Tasks : WorkerConsumeFailed(t)
    \/ \E q \in SendQueues : SendStart(q)
    \/ \E t \in Tasks : SendAssertOk(t)
    \/ StatusStart
    \/ \E t \in Tasks : StatusCheck(t)

SpecStatus == Init /\ [][NextStatus]_vars

\* ---- channel-level errors ----------------------------------------------------------
\* The handler of delivery k stalls (no per-message timeout wraps it) and the
\* broker's delivery acknowledgement timeout elapses: the broker closes the
\* channel of the delivery with PRECONDITION_FAILED; the connection stays
\* open.  The subscriptions of the channel end and its unacknowledged
\* messages return to their queues.
AckTimeout(k) ==
    /\ Ready
    /\ k <= Len(dels)
    /\ dels[k].pc = "await" /\ dels[k].h \in {"send", "timer", "log"}
    /\ chanState[dels[k].ch] = "open"
    /\ chanState' = [chanState EXCEPT ![dels[k].ch] = "closed"]
    /\ queues' = RequeueClosed(queues, unacked, {dels[k].ch})
    /\ unacked' = {u \in unacked : u.ch # dels[k].ch}
    /\ consumers' = {x \in consumers : x.ch # dels[k].ch}
    /\ UNCHANGED <<prog, phase, connState, prefetch, declared, closeL, errorL,
                   connection, channel, isConnected, timers, tasks, dels,
                   nextConn, nextMsg>>

NextIsolation ==
    \/ Next
    \/ \E k \in 1..MaxDeliv : AckTimeout(k)

SpecIsolation == Init /\ [][NextIsolation]_vars

\* ---- part_000: POST /api/users and socket.on('send-message') ---------------------
\* the entry of a RabbitMQService call for queue q made by the request tk:
\* connect() first when isConnected is false
ServiceCall(tk, q) ==
    [tk EXCEPT !.q = q, !.pc = IF isConnected THEN "assert" ELSE "c1", !.ach = channel]

\* POST /api/users arrives
UsersStart ==
    /\ Ready
    /\ prog = "part_000"
    /\ phase = "listening"
    /\ RequestSlots # {}
    /\ tasks' = [tasks EXCEPT ![FirstRequestSlot] =
                   [IdleTask EXCEPT !.kind = "users", !.pc = "save"]]
    /\ UNCHANGED <<prog, phase, brokerVars, closeL, errorL, connection, channel,
                   isConnected, timers, dels, nextConn, nextMsg>>

\* newUser.save() resolved: the 201 response is written, then the first
\* "await rabbitmq.sendToQueue" is entered; i counts the sendToQueue calls
UsersSaved(t) ==
    /\ Ready
    /\ tasks[t].kind = "users" /\ tasks[t].pc = "save"
    /\ tasks' = [tasks EXCEPT ![t] =
                   ServiceCall([@ EXCEPT !.res = <<201>>, !.i = 1], QUEUES[1])]
    /\ UNCHANGED <<prog, phase, brokerVars, closeL, errorL, connection, channel,
                   isConnected, timers, dels, nextConn, nextMsg>>

\* newUser.save() rejected: the 400/409/500 response
UsersSaveFailed(t, e) ==
    /\ Ready
    /\ tasks[t].kind = "users" /\ tasks[t].pc = "save"
    /\ tasks' = [tasks EXCEPT ![t] =
                   Done([tasks[t] EXCEPT !.res = <<ErrorResponse(e)>>], "rejected")]
    /\ queues' = SaveRejected(queues, e)
    /\ UNCHANGED <<prog, phase, connState, chanState, prefetch, declared, unacked,
                   consumers, closeL, errorL, connection, channel, isConnected,
                   timers, dels, nextConn, nextMsg>>

\* assertQueue of the current sendToQueue call resolved and the message is
\* sent; the handler enters the next sendToQueue call, or after the fourth
\* emits 'new-user-registered' and returns.  When this.channel.sendToQueue
\* throws, sendToQueue rethrows into the catch block of the route.
UsersAssertOk(t) ==
    LET tk == tasks[t] IN
    /\ Ready
    /\ tk.kind = "users" /\ tk.pc = "assert"
    /\ ChanUsable(tk.ach)
    /\ declared' = declared \cup {tk.q}
    /\ IF ChanUsable(channel)
       THEN /\ queues' = Published(queues, tk.q, Msg(nextMsg, TRUE))
            /\ nextMsg' = nextMsg + 1
            /\ tasks' = [tasks EXCEPT ![t] =
                   IF tk.i < Len(QUEUES)
                   THEN ServiceCall([tk EXCEPT !.i = tk.i + 1], QUEUES[tk.i + 1])
                   ELSE [Done(tk, "ok") EXCEPT !.i = tk.i]]
       ELSE /\ UNCHANGED <<queues, nextMsg>>
            /\ tasks' = [tasks EXCEPT ![t] = UsersCatch(tk)]
    /\ UNCHANGED <<prog, phase, connState, chanState, prefetch, unacked,
                   consumers, closeL, errorL, connection, channel, isConnected,
                   timers, dels, nextConn>>

\* the socket event 'send-message' arrives
SendMessageStart ==
    /\ Ready
    /\ prog = "part_000"
    /\ phase = "listening"
    /\ RequestSlots # {}
    /\ tasks' = [tasks EXCEPT ![FirstRequestSlot] =
                   [IdleTask EXCEPT !.kind = "chat", !.pc = "save"]]
    /\ UNCHANGED <<prog, phase, brokerVars, closeL, errorL, connection, channel,
                   isConnected, timers, dels, nextConn, nextMsg>>

\* newMessage.save() and Message.findById resolved: 'new-message' is emitted
\* to the room, then "await rabbitmq.sendToQueue('analytics-queue', ...)" is
\* entered; calls keeps the events emitted
SendMessageSaved(t) ==
    /\ Ready
    /\ tasks[t].kind = "chat" /\ tasks[t].pc = "save"
    /\ tasks' = [tasks EXCEPT ![t] =
                   ServiceCall([@ EXCEPT !.calls = <<"new-message">>], QUEUES[3])]
    /\ UNCHANGED <<prog, phase, brokerVars, closeL, errorL, connection, channel,
                   isConnected, timers, dels, nextConn, nextMsg>>

\* newMessage.save() or Message.findById rejected
SendMessageSaveFailed(t) ==
    /\ Ready
    /\ tasks[t].kind = "chat" /\ tasks[t].pc = "save"
    /\ tasks' = [tasks EXCEPT ![t] = ChatCatch(@)]
    /\ UNCHANGED <<prog, phase, brokerVars, closeL, errorL, connection, channel,
                   isConnected, timers, dels, nextConn, nextMsg>>

\* assertQueue of the sendToQueue call resolved and the message is sent; the
\* handler returns without emitting anything more
SendMessageAssertOk(t) ==
    LET tk == tasks[t] IN
    /\ Ready
    /\ tk.kind = "chat" /\ tk.pc = "assert"
    /\ ChanUsable(tk.ach)
    /\ declared' = declared \cup {tk.q}
    /\ IF ChanUsable(channel)
       THEN /\ queues' = Published(queues, tk.q, Msg(nextMsg, TRUE))
            /\ nextMsg' = nextMsg + 1
            /\ tasks' = [tasks EXCEPT ![t] = [Done(tk, "ok") EXCEPT !.calls = tk.calls]]
       ELSE /\ UNCHANGED <<queues, nextMsg>>
            /\ tasks' = [tasks EXCEPT ![t] = ChatCatch(tk)]
    /\ UNCHANGED <<prog, phase, connState, chanState, prefetch, unacked,
                   consumers, closeL, errorL, connection, channel, isConnected,
                   timers, dels, nextConn>>

NextRequests ==
    \/ Next
    \/ UsersStart
    \/ \E t \in Tasks : UsersSaved(t)
    \/ \E t \in Tasks, e \in SaveErrors : UsersSaveFailed(t, e)
    \/ \E t \in Tasks : UsersAssertOk(t)
    \/ SendMessageStart
    \/ \E t \in Tasks : SendMessageSaved(t)
    \/ \E t \in Tasks : SendMessageSaveFailed(t)
    \/ \E t \in Tasks : SendMessageAssertOk(t)

SpecRequests == Init /\ [][NextRequests]_vars

\* POST /api/users of part_000 and part_001 with the connections, channels
\* and subscriptions the requests meet; no message is delivered
NextPost ==
    \/ \E c \in Conns, e \in BOOLEAN : ConnectionLost(c, e)
    \/ \E t \in Tasks : ConnectOpen(t)
    \/ \E t \in Tasks : ConnectRefused(t)
    \/ \E t \in Tasks : ChannelOpen(t)
    \/ \E t \in Tasks : ChannelRefused(t)
    \/ \E t \in Tasks : AssertFailed(t)
    \/ TimerFire
    \/ \E t \in Tasks : WorkerAssertOk(t)
    \/ \E t \in Tasks : WorkerConsumeOk(t)
    \/ \E t \in Tasks : WorkerConsumeFailed(t)
    \/ \E t \in Tasks : AppAssertOk(t)
    \/ PostStart
    \/ \E t \in Tasks, phone \in BOOLEAN : PostSaved(t, phone)
    \/ \E t \in Tasks, e \in SaveErrors : PostSaveFailed(t, e)
    \/ UsersStart
    \/ \E t \in Tasks : UsersSaved(t)
    \/ \E t \in Tasks, e \in SaveErrors : UsersSaveFailed(t, e)
    \/ \E t \in Tasks : UsersAssertOk(t)

SpecPost == Init /\ [][NextPost]_vars

\* ---- queue declaration errors --------------------------------------------------
\* await channel.assertQueue(q, {durable: true}) rejects with a channel
\* error: the queue exists already with other arguments (406
\* PRECONDITION_FAILED).  The broker closes the channel, the connection
\* stays open; the catch block of the call runs.
AssertRejected(t) ==
    LET tk == tasks[t] IN
    /\ Ready
    /\ tk.pc = "assert"
    /\ ChanUsable(tk.ach)
    /\ tk.q \in declared
    /\ chanState' = [chanState EXCEPT ![tk.ach] = "closed"]
    /\ queues' = RequeueClosed(queues, unacked, {tk.ach})
    /\ unacked' = {u \in unacked : u.ch # tk.ach}
    /\ consumers' = {x \in consumers : x.ch # tk.ach}
    /\ Catch(t)
    /\ UNCHANGED <<prog, connState, prefetch, declared, closeL, errorL, connection,
                   dels, nextConn, nextMsg>>

NextDeclare ==
    \/ Next
    \/ \E t \in Tasks : AssertRejected(t)

SpecDeclare == Init /\ [][NextDeclare]_vars

\* ---- part_000: the presence registry ---------------------------------------------
Sockets == 1..MaxSockets
UserIds == 1..MaxUsers

\* The registry and the sockets are kept in the wire field of the last task
\* slot: onlineUsers is the Map as the sequence of its entries in insertion
\* order, sockets the state of each socket ("new" | "connected" |
\* "disconnected"), onlineCount the count sent with the last user-online or
\* user-offline event.
PresenceSlot == MaxTasks
EmptyPresence ==
    [onlineUsers |-> <<>>, sockets |-> [s \in Sockets |-> "new"], onlineCount |-> 0]
Presence ==
    IF tasks[PresenceSlot].kind = "io" THEN tasks[PresenceSlot].wire ELSE EmptyPresence

PresenceStep(p) ==
    /\ prog = "part_000"
    /\ phase = "listening"
    /\ tasks[PresenceSlot].kind \in {"none", "io"}
    /\ tasks' = [tasks EXCEPT ![PresenceSlot] =
                   [IdleTask EXCEPT !.kind = "io", !.pc = "done", !.wire = p]]
    /\ UNCHANGED <<prog, phase, brokerVars, closeL, errorL, connection, channel,
                   isConnected, timers, dels, nextConn, nextMsg>>

\* the positions of the entries of Map m with key u, and of those whose
\* value carries the socket id s
KeyPositions(m, u) == {k \in 1..Len(m) : m[k].userId = u}
SocketPositions(m, s) == {k \in 1..Len(m) : m[k].socketId = s}

\* Map m without its entry at position k
Without(m, k) == [j \in 1..(Len(m) - 1) |-> IF j < k THEN m[j] ELSE m[j + 1]]

\* onlineUsers.set(userId, {socketId, ...}): the value of an existing key is
\* replaced where it is, a new key is added at the end
MapSet(m, u, s) ==
    LET at == KeyPositions(m, u) IN
    IF at = {} THEN Append(m, [userId |-> u, socketId |-> s])
    ELSE [k \in 1..Len(m) |-> IF k \in at THEN [userId |-> u, socketId |-> s] ELSE m[k]]

\* the loop of the 'disconnect' handler: the first entry whose socketId is
\* that of the socket is deleted, then the loop breaks
DeleteFirstOf(m, s) ==
    LET at == SocketPositions(m, s) IN
    IF at = {} THEN m ELSE Without(m, CHOOSE k \in at : \A j \in at : k <= j)

\* io.on('connection')
SocketConnect(s) ==
    /\ Presence.sockets[s] = "new"
    /\ PresenceStep([Presence EXCEPT !.sockets[s] = "connected"])

\* socket.on('user-login') with userData.userId = u: the entry is set and
\* 'user-online' is emitted with onlineCount: onlineUsers.size
UserLogin(s, u) ==
    LET m == MapSet(Presence.onlineUsers, u, s) IN
    /\ Presence.sockets[s] = "connected"
    /\ PresenceStep([Presence EXCEPT !.onlineUsers = m, !.onlineCount = Len(m)])

\* socket.on('disconnect'): when an entry was deleted 'user-offline' is
\* emitted with onlineCount: onlineUsers.size
SocketDisconnect(s) ==
    LET m == DeleteFirstOf(Presence.onlineUsers, s) IN
    /\ Presence.sockets[s] = "connected"
    /\ PresenceStep([Presence EXCEPT !.sockets[s] = "disconnected",
                                     !.onlineUsers = m,
                                     !.onlineCount = IF m = Presence.onlineUsers
                                                     THEN @ ELSE Len(m)])

\* the sockets of a server that has started, whatever became of its broker
\* connection; no request is served and no message is delivered
NextPresence ==
    \/ \E c \in Conns, e \in BOOLEAN : ConnectionLost(c, e)
    \/ \E t \in Tasks : ConnectOpen(t)
    \/ \E t \in Tasks : ConnectRefused(t)
    \/ \E t \in Tasks : ChannelOpen(t)
    \/ \E t \in Tasks : ChannelRefused(t)
    \/ \E t \in Tasks : AssertFailed(t)
    \/ \E t \in Tasks : WorkerAssertOk(t)
    \/ \E t \in Tasks : WorkerConsumeOk(t)
    \/ \E t \in Tasks : WorkerConsumeFailed(t)
    \/ \E s \in Sockets : SocketConnect(s)
    \/ \E s \in Sockets, u \in UserIds : UserLogin(s, u)
    \/ \E s \in Sockets : SocketDisconnect(s)

SpecPresence == Init /\ [][NextPresence]_vars

\* ---- the wire format of a published message ----------------------------------
\* payloads: objects over a few keys; "undefined" stands for the JavaScript
\* value undefined
PayloadKeys == {"type", "userId", "timestamp"}
PayloadValues == {"v", "undefined"}
Payloads == UNION {[K -> PayloadValues] : K \in SUBSET PayloadKeys}

\* JSON.parse(JSON.stringify(o)): properties whose value is undefined are
\* left out
Stringify(o) == [k \in {x \in DOMAIN o : o[x] # "undefined"} |-> o[k]]

\* { ...message, timestamp: new Date().toISOString(), messageId: ... }
Envelope(message) ==
    [k \in DOMAIN message \cup {"timestamp", "messageId"} |->
        IF k = "timestamp" THEN "now" ELSE IF k = "messageId" THEN "id" ELSE message[k]]

\* the body handed to channel.sendToQueue: RabbitMQService.sendToQueue wraps
\* the payload, POST /api/users of part_001 stringifies its object as it is
WireBody(p, payload) ==
    IF p = "part_000" THEN Stringify(Envelope(payload)) ELSE Stringify(payload)

\* the options of the channel.sendToQueue call
WireOptions(p) == [persistent |-> TRUE]

\* one publish of payload
WirePublish(payload) ==
    /\ prog \in {"part_000", "part_001"}
    /\ RequestSlots # {}
    /\ tasks' = [tasks EXCEPT ![FirstRequestSlot] =
                   [IdleTask EXCEPT !.kind = "wire", !.pc = "done",
                                    !.wire = [payload |-> payload,
                                              body |-> WireBody(prog, payload),
                                              options |-> WireOptions(prog)]]]
    /\ UNCHANGED <<prog, phase, brokerVars, closeL, errorL, connection, channel,
                   isConnected, timers, dels, nextConn, nextMsg>>

NextWire == \E payload \in Payloads : WirePublish(payload)

SpecWire == Init /\ [][NextWire]_vars

\* ---- properties ----------------------------------------------------------------
Settled(d) == d.pc # "await"
Acks(d) == {i \in 1..Len(d.res) : d.res[i].op = "ack"}
Dels == {dels[k] : k \in 1..Len(dels)}
InQueue(id) == \E q \in QueueNames : \E i \in 1..Len(queues[q]) : queues[q][i].id = id
Gone(id) == ~InQueue(id) /\ ~\E u \in unacked : u.id = id
ReconnectPending ==
    timers > 0 \/ \E t \in Tasks : tasks[t].kind \in {"conn", "setup"} \/ tasks[t].pc \in {"c1", "c2"}

\* C1: no premature ack - a delivery for which an ack call has been made is a
\* delivery whose handler was invoked and has completed successfully; no ack
\* is made while the handler is running or before it was started.
C1_NoPrematureAck == \A d \in Dels : Acks(d) # {} => d.h = "ok"

C1_Witness ==
    \E d \in Dels : d.h = "ok" /\ d.res = <<[op |-> "ack", requeue |-> FALSE, result |-> "done"]>>

\* C2: retry on handler failure - once the handler of a well-formed message
\* has thrown or rejected, the consumer's resolution of that delivery is a
\* nack with requeue enabled (in every consumer of the repository).
C2_RetryOnHandlerFailure ==
    \A d \in Dels : d.wf /\ d.h = "threw" /\ Settled(d) =>
        \A i \in 1..Len(d.res) : d.res[i].op = "nack" /\ d.res[i].requeue

\* C3: malformed messages are never retried - a delivery whose body does not
\* parse is resolved by a single nack with requeue disabled, its handler is
\* not invoked, and the message is not delivered a second time.
C3_MalformedNeverRetried ==
    \A k \in 1..Len(dels) : ~dels[k].wf =>
        /\ dels[k].h = "none"
        /\ Len(dels[k].res) = 1
        /\ dels[k].res[1].op = "nack" /\ ~dels[k].res[1].requeue
        /\ \A j \in 1..Len(dels) : j # k => dels[j].id # dels[k].id

C5_ExactlyOneResolution == \A d \in Dels : Settled(d) => Len(d.res) = 1

\* C6: sequential processing per queue - at most one handler invocation per
\* queue is in progress at any time.
C6_OneHandlerPerQueue ==
    \A q \in QueueNames : Cardinality({k \in 1..Len(dels) : dels[k].q = q /\ dels[k].pc = "await"}) <= 1

\* C7: a delivery-transport failure is retryable - a delivery of an email
\* work item whose send was rejected by the mail transport is resolved by a
\* nack with requeue: it is neither acked nor discarded.
C7_TransportFailureRequeued ==
    \A d \in Dels : d.sendFailed /\ Settled(d) =>
        \A i \in 1..Len(d.res) : d.res[i].op = "nack" /\ d.res[i].requeue

\* C8: automatic reconnect - whenever the connection held by the connection
\* manager has closed, a reconnect is pending: a timer is armed or a connect
\* attempt is in progress.
C8_ReconnectAfterClose ==
    (phase # "exited" /\ connection # 0 /\ connState[connection] = "closed") => ReconnectPending

\* C9: publish ensures connectivity - no publish request ends with the work
\* item skipped because the connection was down when the request was made.
C9_PublishNeverSkipped == \A t \in Tasks : tasks[t].out # "skipped"

\* C10: publishing resumes after a disconnect - a sendToQueue call made while
\* the broker is reachable, with no loss of connectivity during the call,
\* succeeds, whatever losses came before it.
C10_PublishResumes ==
    \A t \in Tasks : tasks[t].kind = "send" /\ tasks[t].pc = "done" /\ tasks[t].calm =>
        tasks[t].out = "ok"

\* a connect() / connectRabbitMQ call is between its first and its last line
Connecting == \E t \in Tasks : tasks[t].pc \in {"c1", "c2"} \/ tasks[t].kind = "conn"

\* C11: the connected flag is the source of truth - outside a connect call in
\* progress, RabbitMQService.isConnected is true only if the stored connection
\* and channel are open and false only if the stored connection is down; in
\* part_001 the channel variable is non-null only while its connection is open.
C11_FlagIsTruth ==
    ~Connecting =>
        /\ prog = "part_000" /\ isConnected =>
               connection # 0 /\ connState[connection] = "open" /\ ChanUsable(channel)
        /\ prog = "part_000" /\ ~isConnected /\ connection # 0 =>
               connState[connection] # "open"
        /\ prog = "part_001" /\ channel # 0 => connState[channel] = "open"

\* C12: graceful shutdown - a SIGINT handler that found the channel and the
\* connection open, and ran with no other loss of connectivity, has closed the
\* channel and then the connection, and that close armed no reconnect.
C12_GracefulShutdown ==
    \A t \in Tasks :
        tasks[t].kind = "sigint" /\ tasks[t].pc = "done" /\ tasks[t].calm
          /\ tasks[t].conn # 0 /\ tasks[t].ach # 0 =>
            /\ tasks[t].calls = <<"channel.close", "connection.close">>
            /\ tasks[t].out # "rearmed"

\* no connection was ever opened and the startup call is over: the first
\* connect attempt of the run has failed
FirstConnectFailed ==
    nextConn = 1 /\ \A t \in Tasks : tasks[t].kind \notin {"start", "conn", "setup"}

\* C13: initial connection errors are surfaced - when the first connect attempt
\* of part_000 or part_001 has failed, startup has stopped with the error (the
\* process does not go on serving) and no silent retry is armed.
C13_InitialErrorSurfaced ==
    prog \in {"part_000", "part_001"} /\ FirstConnectFailed =>
        phase = "exited" /\ timers = 0

\* C14: declare before use - every subscription is on a declared queue, every
\* queued message is on a declared queue, and no publish of POST /api/users
\* was issued for a queue whose declaration had not completed.
C14_DeclaredBeforeUse ==
    /\ \A x \in consumers : x.q \in declared
    /\ \A q \in QueueNames : queues[q] # <<>> => q \in declared
    /\ \A t \in Tasks : tasks[t].kind = "post" => tasks[t].calls = <<>>

\* C15: wire envelope - the body of every published message holds every field
\* of the payload with its value, plus timestamp and messageId, and is sent
\* with the persistent flag.
C15_WireEnvelope ==
    \A t \in Tasks : tasks[t].kind = "wire" =>
        LET w == tasks[t].wire IN
        /\ \A k \in DOMAIN w.payload : k \in DOMAIN w.body /\ w.body[k] = w.payload[k]
        /\ {"timestamp", "messageId"} \subseteq DOMAIN w.body
        /\ w.options.persistent

InfoStep == \E t \in Tasks : tasks'[t].kind = "info" /\ tasks'[t] # tasks[t]

\* C17: introspection is read-only - no step of a getQueueInfo call creates a
\* queue, changes the pending messages of a queue, or changes the service's
\* channel, its connected flag, the state of a channel or a subscription.
C17_InfoReadOnly ==
    [][InfoStep => UNCHANGED <<declared, queues, channel, isConnected, chanState, consumers>>]_vars

\* the queues with a subscription on channel c
Subscribed(cons, c) == {x.q : x \in {y \in cons : y.ch = c}}

\* C18: failure isolation between queues - a channel-level error (a channel
\* closed by the broker while its connection stays open) ends the
\* subscription of at most the one queue it was raised for: no other queue
\* loses its consumer.
C18_FailureIsolation ==
    [][\A c \in Conns :
         (chanState[c] = "open" /\ chanState'[c] = "closed" /\ connState'[c] = "open")
         => Cardinality(Subscribed(consumers, c) \ Subscribed(consumers', c)) <= 1]_vars

\* an ack or nack of delivery d arrived on an open channel that did not
\* deliver it
Misdirected(d) == \E i \in 1..Len(d.res) : d.res[i].result = "stray"

\* C19: no cross-talk on acknowledgment state - no ack or nack is issued on an
\* open channel other than the one that delivered the message (in particular
\* not on a channel that connect() put in place while the handler was in
\* flight), and no channel carries the consume loop of more than one queue.
C19_NoCrossTalk ==
    /\ \A d \in Dels : ~Misdirected(d)
    /\ \A c \in Conns : Cardinality(Subscribed(consumers, c)) <= 1

\* C20: mandatory log append - no handler invocation has ended, by return or
\* by throw, without its log entry having been appended.
C20_LogAfterEveryAttempt ==
    \A d \in Dels : d.wf /\ d.h \in {"ok", "threw"} => d.logged

\* C21: fire-and-forget publish failures are non-fatal to the request - a
\* POST /api/users of part_000 that is over has had exactly one response
\* written for it and its handler did not end with an error, also when a
\* publish made after the 201 response failed.
C21_OneResponse ==
    \A t \in Tasks : tasks[t].kind = "users" /\ tasks[t].pc = "done" =>
        Len(tasks[t].res) = 1 /\ tasks[t].out # "threw"

\* the publish of the request tk failed or could not be performed
PublishFailed(tk) ==
    \/ tk.kind = "post" /\ tk.out \in {"skipped", "err"}
    \/ tk.kind = "chat" /\ tk.out = "err" /\ tk.calls[1] = "new-message"

\* the requester of tk was told of an error
ErrorReported(tk) ==
    \/ tk.kind = "post" /\ tk.res # <<>> /\ tk.res[Len(tk.res)] >= 400
    \/ tk.kind = "chat" /\ tk.calls[Len(tk.calls)] = "error"

\* C22: critical-path publish failures are reported - a request whose publish
\* (POST /api/users of part_001, 'send-message' of part_000) failed or could
\* not be performed has been answered with an error, not with a success.
C22_PublishFailureReported ==
    \A t \in Tasks : tasks[t].pc = "done" /\ PublishFailed(tasks[t]) => ErrorReported(tasks[t])

\* the handler invocation d has handed its mail to the transport
Sent(d) == d.q = EMAIL_QUEUE /\ ~d.sendFailed /\ d.h \in {"log", "ok", "threw"}

\* C23: handlers tolerate redelivery - of two handler invocations for the same
\* work item at most one hands the mail to the transport and at most one
\* appends a log entry.
C23_RedeliveryTolerated ==
    \A j, k \in 1..Len(dels) : j < k /\ dels[j].id = dels[k].id =>
        /\ ~(Sent(dels[j]) /\ Sent(dels[k]))
        /\ ~(dels[j].logged /\ dels[k].logged)

\* the handler of delivery d is waiting for its mail transport, its timer
\* or its log write
HandlerPending(d) == d.pc = "await" /\ d.h \in {"send", "timer", "log"}

\* the next step of the handler of delivery k can be taken
HandlerStep(k) ==
    \/ \E ok \in BOOLEAN : HSend(k, ok)
    \/ HTimer(k)
    \/ \E ok \in BOOLEAN : HLog(k, ok)

OpenConnections == {c \in Conns : connState[c] = "open"}

\* C25: single broker connection - the process holds at most one open broker
\* connection, and an open connection is the one the program refers to.
C25_SingleConnection ==
    /\ Cardinality(OpenConnections) <= 1
    /\ \A c \in OpenConnections : c = connection

\* the reconnect chains of part_001 and email-worker: armed timers and
\* connectRabbitMQ / setupEmailConsumer calls in progress
ReconnectChains ==
    timers + Cardinality({t \in Tasks : tasks[t].kind \in {"conn", "setup"}})

\* C26: single reconnect chain - in part_001 and email-worker at most one
\* reconnect is pending or in progress at any time.
C26_SingleReconnectChain ==
    prog \in {"part_001", "email-worker"} => ReconnectChains <= 1

\* a reconnect armed by the 'close' listener of an established connection
\* has opened the next connection
C26_Witness ==
    /\ prog \in {"part_001", "email-worker"}
    /\ closeL # {} /\ connState[1] = "closed" /\ connState[2] = "open"

\* queue q had a subscription: a message of q was delivered, or
\* setupEmailConsumer completed once
HadConsumer(q) ==
    \/ \E d \in Dels : d.q = q
    \/ prog = "email-worker" /\ q = EMAIL_QUEUE /\ closeL # {}

\* a connection was lost and the program holds an open channel on a later,
\* open connection
Reestablished ==
    /\ ChanUsable(channel) /\ connState[channel] = "open"
    /\ \E c \in Conns : c < channel /\ connState[c] = "closed"

\* no call that connects or subscribes is in progress or armed
SetupQuiet ==
    /\ timers = 0
    /\ \A t \in Tasks : tasks[t].kind \notin {"start", "conn", "setup"}
                        /\ tasks[t].pc \notin {"c1", "c2", "assert", "consume"}

\* C27: consumers survive a reconnect - once a new connection and channel
\* are established after a loss and no connect or subscribe call is pending,
\* every queue that had a subscription has exactly one, on the new channel.
C27_ConsumersSurviveReconnect ==
    Reestablished /\ SetupQuiet /\ prog \in {"part_000", "email-worker"} =>
        \A q \in QueueNames : HadConsumer(q) =>
            {x \in consumers : x.q = q} = {[q |-> q, ch |-> channel]}

\* C28: the delivery callback never fails - the promise returned by the
\* consume callback of no delivery has rejected.
C28_CallbackNeverRejects == \A d \in Dels : d.pc # "rejected"

\* every queue of QUEUES has a subscription in cons on a channel that is open
AllSubscribed(cons, cs) ==
    \A q \in QueueNames : \E x \in cons : x.q = q /\ cs[x.ch] = "open"

\* C29: startup ordering in part_000 - the step in which the server starts
\* listening finds the broker connection open and a consumer registered for
\* each of the four queues.
C29_ListenAfterConsumers ==
    [][prog = "part_000" /\ phase = "starting" /\ phase' = "listening" =>
          /\ connection' # 0 /\ connState'[connection'] = "open"
          /\ AllSubscribed(consumers', chanState')]_vars

\* the responses of a failed save
ErrorResponses == {<<ErrorResponse(e)>> : e \in SaveErrors}

\* C30: work is dispatched only for persisted users - the step in which the
\* save of a POST /api/users request (part_000 and part_001) fails publishes
\* nothing to any queue and answers with the 400, 409 or 500 response of the
\* error; the request does nothing after it.
C30_PublishOnlyAfterSave ==
    [][\A t \in Tasks :
         /\ (tasks[t].kind \in {"post", "users"} /\ tasks[t].pc = "save"
               /\ tasks'[t].out = "rejected")
            => /\ queues' = queues /\ nextMsg' = nextMsg
               /\ tasks'[t].res \in ErrorResponses
               /\ tasks'[t].pc = "done"
         /\ (tasks[t].kind \in {"post", "users"} /\ tasks[t].out = "rejected")
            => tasks'[t] = tasks[t]]_vars

\* a POST /api/users whose save failed on a duplicate email
C30_Witness ==
    \E t \in Tasks :
        /\ tasks[t].kind \in {"post", "users"}
        /\ tasks[t].out = "rejected" /\ tasks[t].res = <<409>>

\* C31: per-queue status isolation - in the answer of a GET /api/queues/status
\* request that found the service connected and met no loss of connectivity,
\* every queue that existed when it was checked is reported with its
\* messageCount, whatever the checks of the other queues gave, and the
\* endpoint answers with success.
C31_StatusIsolation ==
    \A t \in Tasks :
        tasks[t].kind = "status" /\ tasks[t].pc = "done" /\ tasks[t].calm =>
            /\ tasks[t].res = <<200>>
            /\ \A k \in 1..Len(tasks[t].calls) :
                  tasks[t].calls[k].exists => tasks[t].calls[k].status = "ok"

\* C32: presence registry consistency - every entry of onlineUsers refers to
\* a socket that is connected, and the onlineCount sent with the last
\* user-online or user-offline event equals the size of the map.
C32_RegistryConsistent ==
    /\ \A k \in 1..Len(Presence.onlineUsers) :
          Presence.sockets[Presence.onlineUsers[k].socketId] = "connected"
    /\ Presence.onlineCount = Len(Presence.onlineUsers)
====
